---- MODULE Spec2Model ----
(***************************************************************************)
(* A model of mortar_sqlalchemy's Temporal mixin: rows valid over a        *)
(* half-open period [value_from, value_to), keyed by key columns, and the  *)
(* reconciliation routine Temporal.set_for_period that rewrites the rows   *)
(* of one key so that a candidate's value holds over the candidate's       *)
(* period.  The database (PostgreSQL tsrange, the exclusion and check      *)
(* constraints) and the SQLAlchemy session (pending changes, flush) are    *)
(* modelled as far as set_for_period and the test-suite use them.          *)
(***************************************************************************)
EXTENDS Integers, Sequences, FiniteSets, TLC

\* db: the rows of the table; nextId: the table's id sequence; sess: the
\* callers' sessions; calls: the calls made so far; initial: the rows of the
\* table when the sessions were opened; mapped: the mapped class whose
\* table db is; obj: a Temporal object built by its constructor, with the
\* last assignment to value_from or value_to; applied: a call of one of the
\* module's interval helpers, with its two arguments and what it returned
VARIABLES db, nextId, sess, calls, initial, mapped, obj, applied

vars == <<db, nextId, sess, calls, initial, mapped, obj, applied>>

(***************************************************************************)
(* Bounds of the model.                                                    *)
(***************************************************************************)
\* timestamps are 1..MaxT
MaxT == 4
\* the callers make at most MaxCalls calls of set_for_period
MaxCalls == 3

\* Python's None: an unbounded period bound, or the id of a transient object
None == -1

Times == 1..MaxT
Bound == Times \cup {None}
\* the instants at which rows are looked up: 0 lies before every timestamp,
\* MaxT is the last one
Instants == 0..MaxT
Keys == {"k"}
OtherKeys == {"j"}
Values == {"a", "b"}
Sessions == {1, 2}

(***************************************************************************)
(* Interval helpers (module level functions of temporal.py).               *)
(***************************************************************************)
\* a strict comparison that is false for two unbounded starts
starts_before_strictly(s_from, o_from) ==
    o_from # None /\ (s_from = None \/ s_from < o_from)

starts_before(s_from, o_from) ==
    s_from = None \/ (o_from # None /\ s_from < o_from)

\* a comparison without the test for equal ends
ends_at_or_after_unequal(s_to, o_to) ==
    s_to = None \/ (o_to # None /\ s_to > o_to)

ends_at_or_after(s_to, o_to) ==
    s_to = None \/ s_to = o_to \/ (o_to # None /\ s_to > o_to)

ends_after(s_to, o_to) ==
    o_to # None /\ (s_to = None \/ s_to > o_to)

\* the minimum with None taken as missing: the other argument is returned
earliest_of_bounded(x, y) ==
    IF x = None THEN y ELSE IF y = None THEN x ELSE IF x < y THEN x ELSE y

earliest(x, y) ==
    IF x = None \/ y = None THEN None ELSE IF x < y THEN x ELSE y

latest(x, y) ==
    IF x = None \/ y = None THEN None ELSE IF x > y THEN x ELSE y

\* period_str: the four renderings of a period, as a tagged tuple
period_str(value_from, value_to) ==
    IF value_from = None /\ value_to = None THEN <<"always">>
    ELSE IF value_from = None THEN <<"until", value_to>>
    ELSE IF value_to = None THEN <<"onwards", value_from>>
    ELSE <<"to", value_from, value_to>>

(***************************************************************************)
(* Rows.  A row is [id, key, value, value_from, value_to]; period is the   *)
(* pair of value_from and value_to with bounds '[)'.                       *)
(***************************************************************************)
Row(id, key, value, value_from, value_to) ==
    [id |-> id, key |-> key, value |-> value,
     value_from |-> value_from, value_to |-> value_to]

\* Temporal.__init__ with value_from / value_to: a transient object
Temporal(key, value, value_from, value_to) ==
    Row(None, key, value, value_from, value_to)

\* value_tuple: the values of the value columns (one column, "value")
value_tuple(r) == <<r.value>>

\* key columns of a row
key_tuple(r) == <<r.key>>

\* a containment test with the end of the period included
value_at_closed(r, timestamp) ==
    /\ (r.value_from = None \/ r.value_from <= timestamp)
    /\ (r.value_to = None \/ timestamp <= r.value_to)

\* value_at: period.contains(timestamp), bounds '[)'
value_at(r, timestamp) ==
    /\ (r.value_from = None \/ r.value_from <= timestamp)
    /\ (r.value_to = None \/ timestamp < r.value_to)

\* a period with lower > upper: PostgreSQL refuses to build the range
Inverted(r) ==
    r.value_from # None /\ r.value_to # None /\ r.value_from > r.value_to

\* a period [x, x): the empty range
EmptyPeriod(r) ==
    r.value_from # None /\ r.value_to # None /\ r.value_from = r.value_to

\* strictly-before of a lower bound and an upper bound, None unbounded
LowerBeforeUpper(lo, up) == lo = None \/ up = None \/ lo < up

\* periods that meet end to start taken as overlapping
PeriodOverlapsOrMeets(a, b) ==
    /\ ~EmptyPeriod(a) /\ ~Inverted(a)
    /\ ~EmptyPeriod(b) /\ ~Inverted(b)
    /\ a.value_from = None \/ b.value_to = None \/ a.value_from <= b.value_to
    /\ b.value_from = None \/ a.value_to = None \/ b.value_from <= a.value_to

\* the && operator of tsrange on two non-empty '[)' periods
PeriodOverlaps(a, b) ==
    /\ ~EmptyPeriod(a) /\ ~Inverted(a)
    /\ ~EmptyPeriod(b) /\ ~Inverted(b)
    /\ LowerBeforeUpper(a.value_from, b.value_to)
    /\ LowerBeforeUpper(b.value_from, a.value_to)

\* the order of tsrange values: lower bound first (unbounded lowest),
\* then upper bound (unbounded highest)
PeriodLess(a, b) ==
    IF a.value_from # b.value_from
    THEN a.value_from = None \/ (b.value_from # None /\ a.value_from < b.value_from)
    ELSE a.value_to # b.value_to /\
         (b.value_to = None \/ (a.value_to # None /\ a.value_to < b.value_to))

\* a query without order_by: the rows as the table holds them
RECURSIVE OrderById(_)
OrderById(rows) ==
    IF rows = {} THEN <<>>
    ELSE LET first == CHOOSE r \in rows : \A o \in rows : r.id <= o.id
         IN <<first>> \o OrderById(rows \ {first})

RECURSIVE OrderByPeriod(_)
OrderByPeriod(rows) ==
    IF rows = {} THEN <<>>
    ELSE LET first == CHOOSE r \in rows :
                        \A o \in rows \ {r} :
                            PeriodLess(r, o) \/ (~PeriodLess(o, r) /\ r.id < o.id)
         IN <<first>> \o OrderByPeriod(rows \ {first})

\* a query without the filter_by on the key columns
overlapsAnyKey(self, rows) ==
    OrderByPeriod({r \in rows : PeriodOverlaps(r, self)})

\* a query without the filter on period.overlaps
overlapsAnyPeriod(self, rows) ==
    OrderByPeriod({r \in rows : key_tuple(r) = key_tuple(self)})

\* Temporal.overlaps: same key, overlapping period, ordered by period
overlaps(self, rows) ==
    OrderByPeriod({r \in rows : key_tuple(r) = key_tuple(self)
                                /\ PeriodOverlaps(r, self)})

\* Query.limit(n)
Limit(seq, n) == IF Len(seq) > n THEN SubSeq(seq, 1, n) ELSE seq

(***************************************************************************)
(* The session and the table.  A pending change is [op, row]: "update"     *)
(* (row: the object with its new period), "delete", "add".  A flush emits  *)
(* UPDATEs (by primary key), then INSERTs, then DELETEs; every statement   *)
(* is checked by the table's constraints.                                  *)
(***************************************************************************)
Op(op, row) == [op |-> op, row |-> row]

\* the table of a class with exclude_constraint = False
WriteErrorNoExclude(r, others) ==
    IF Inverted(r) THEN "DataError"
    ELSE IF EmptyPeriod(r) THEN "IntegrityError"
    ELSE "ok"

\* a mapped class: whether it declares key_columns, the key columns, and
\* its exclude_constraint attribute
Class(declared, key_columns, exclude_constraint) ==
    [declared |-> declared, key_columns |-> key_columns,
     exclude_constraint |-> exclude_constraint]

\* SetForPeriodHelpers.Model: key_columns = ['key'], exclude_constraint True
Model == Class(TRUE, <<"key">>, TRUE)

\* the table without the CheckConstraint
NoCheckConstraint(class_) ==
    [exclude |-> class_.declared /\ class_.exclude_constraint,
     elements |-> class_.key_columns,
     check |-> FALSE]

\* the ExcludeConstraint appended whatever the class says
AlwaysExclude(class_) ==
    [exclude |-> TRUE, elements |-> class_.key_columns, check |-> TRUE]

\* add_constraints_and_attributes: the constraints of the class's table,
\* an ExcludeConstraint over the key columns ('=') and period ('&&') if
\* key_columns is declared and exclude_constraint is set, and the
\* CheckConstraint period != 'empty'
add_constraints_and_attributes(class_) ==
    [exclude |-> class_.declared /\ class_.exclude_constraint,
     elements |-> class_.key_columns,
     check |-> TRUE]

\* only the first key column compared
SameFirstKey(elements, a, b) ==
    elements = <<>> \/ a[elements[1]] = b[elements[1]]

\* the columns of the ExcludeConstraint's elements compared with '='
SameKey(elements, a, b) ==
    \A n \in DOMAIN elements : a[elements[n]] = b[elements[n]]

\* the error a row written to a table with these constraints raises; a
\* range with lower > upper is refused by PostgreSQL itself (DataError)
ConstraintError(constraints, r, others) ==
    IF Inverted(r) THEN "DataError"
    ELSE IF constraints.check /\ EmptyPeriod(r) THEN "IntegrityError"
    ELSE IF /\ constraints.exclude
            /\ \E o \in others : /\ SameKey(constraints.elements, o, r)
                                 /\ PeriodOverlaps(o, r)
         THEN "IntegrityError"
    ELSE "ok"

\* a row written to the table of the mapped class
WriteError(r, others) ==
    ConstraintError(add_constraints_and_attributes(mapped), r, others)

RECURSIVE SortById(_)
SortById(ops) ==
    IF ops = {} THEN <<>>
    ELSE LET first == CHOOSE o \in ops : \A p \in ops : o.row.id <= p.row.id
         IN <<first>> \o SortById(ops \ {first})

OpsOf(pend, op) == SelectSeq(pend, LAMBDA o : o.op = op)

Range(seq) == {seq[n] : n \in DOMAIN seq}

\* the statements of one flush, in the unit of work's order
Statements(pend) ==
    SortById(Range(OpsOf(pend, "update"))) \o OpsOf(pend, "add") \o OpsOf(pend, "delete")

\* one statement against the table t = [db, nextId, err]
Execute(t, stmt) ==
    IF t.err # "ok" THEN t
    ELSE IF stmt.op = "update" THEN
        LET old == {r \in t.db : r.id = stmt.row.id}
            e == WriteError(stmt.row, t.db \ old)
        IN IF old = {} THEN [t EXCEPT !.err = "StaleDataError"]
           ELSE IF e # "ok" THEN [t EXCEPT !.err = e]
           ELSE [t EXCEPT !.db = (t.db \ old) \cup {stmt.row}]
    ELSE IF stmt.op = "add" THEN
        LET new == [stmt.row EXCEPT !.id = t.nextId]
            e == WriteError(new, t.db)
        IN IF e # "ok" THEN [t EXCEPT !.err = e, !.nextId = @ + 1]
           ELSE [t EXCEPT !.db = t.db \cup {new}, !.nextId = @ + 1]
    ELSE [t EXCEPT !.db = {r \in t.db : r.id # stmt.row.id}]

RECURSIVE ExecuteAll(_, _)
ExecuteAll(t, stmts) ==
    IF stmts = <<>> THEN t
    ELSE ExecuteAll(Execute(t, Head(stmts)), Tail(stmts))

\* Session.flush of the pending changes
flush(database, next, pend) ==
    ExecuteAll([db |-> database, nextId |-> next, err |-> "ok"], Statements(pend))

(***************************************************************************)
(* set_for_period.  ls is the state of one call: the candidate self, the   *)
(* locals self_from, self_to, current_from and create, the session's       *)
(* pending changes, the log records emitted and every store operation      *)
(* issued so far.                                                          *)
(***************************************************************************)
Event(kind, level, self, value_from, value_to, old) ==
    [kind |-> kind, level |-> level, key |-> self.key, value |-> self.value,
     value_from |-> value_from, value_to |-> value_to,
     old_value |-> old.value, old_from |-> old.value_from, old_to |-> old.value_to]

NoRow == Row(None, "", "", None, None)

log_set(ls, value_from, value_to) ==
    [ls EXCEPT !.log = Append(@,
        Event("set", "INFO", ls.self, value_from, value_to, NoRow))]

\* a change of value logged as if nothing had been there
log_changed_value_as_set(ls, existing, value_from, value_to) ==
    log_set(ls, value_from, value_to)

log_changed_value(ls, existing, value_from, value_to) ==
    [ls EXCEPT !.log = Append(@,
        Event("changed_value", "WARNING", ls.self, value_from, value_to,
              [NoRow EXCEPT !.value = existing.value]))]

log_changed_period(ls, existing, value_from, value_to) ==
    [ls EXCEPT !.log = Append(@,
        Event("changed_period", "INFO", ls.self, value_from, value_to,
              [NoRow EXCEPT !.value_from = existing.value_from,
                            !.value_to = existing.value_to]))]

log_unchanged(ls) ==
    [ls EXCEPT !.log = Append(@,
        Event("unchanged", "DEBUG", ls.self, ls.self_from, ls.self_to, NoRow))]

\* session.delete(existing); session.flush()
DeleteAndFlush(ls, existing) ==
    [ls EXCEPT !.pend = Append(@, Op("delete", existing)),
               !.ops = @ \o <<Op("delete", existing), Op("flush", NoRow)>>,
               !.flush = TRUE,
               !.flushed_log = ls.log]

\* existing.value_from = ... / existing.value_to = ...: the object is dirty
SetPeriod(ls, existing, value_from, value_to) ==
    LET changed == [existing EXCEPT !.value_from = value_from, !.value_to = value_to]
    IN [ls EXCEPT !.pend = Append(@, Op("update", changed)),
                  !.ops = Append(@, Op("update", changed))]

\* the state of a call before the first record of the overlap stream
Start(self) ==
    [self |-> self,
     self_from |-> self.value_from,
     self_to |-> self.value_to,
     current_from |-> self.value_from,
     create |-> TRUE,
     pend |-> <<>>, log |-> <<>>, ops |-> <<>>,
     stop |-> FALSE, flush |-> FALSE, flushed_log |-> <<>>]

\* a coalesce branch that leaves create as it was
CoalesceBranchStillCreates(ls, existing, current_starts_before) ==
    LET self_ends_after == ends_after(ls.self_to, existing.value_to)
        new_from == earliest(ls.self_from, existing.value_from)
        widened == [ls EXCEPT
                      !.self_from = new_from,
                      !.self = [@ EXCEPT !.value_from = new_from,
                                         !.value_to = latest(ls.self_to, existing.value_to)]]
        l1 == IF current_starts_before \/ self_ends_after
              THEN DeleteAndFlush(widened, existing)
              ELSE log_unchanged(ls)
    IN [l1 EXCEPT !.current_from = existing.value_to]

\* lines 272-288: the coalesce branch (its guard is in Body)
CoalesceBranch(ls, existing, current_starts_before) ==
    LET self_ends_after == ends_after(ls.self_to, existing.value_to)
        new_from == earliest(ls.self_from, existing.value_from)
        widened == [ls EXCEPT
                      !.self_from = new_from,
                      !.self = [@ EXCEPT !.value_from = new_from,
                                         !.value_to = latest(ls.self_to, existing.value_to)]]
        l1 == IF current_starts_before \/ self_ends_after
              THEN DeleteAndFlush(widened, existing)
              ELSE [log_unchanged(ls) EXCEPT !.create = FALSE]
    IN [l1 EXCEPT !.current_from = existing.value_to]

\* lines 290-308: the open-ended candidate (its guard is in Body)
OpenEndedBranch(ls, existing) ==
    LET existing_from == existing.value_from
        existing_to == existing.value_to
        l1 == IF starts_before(ls.self_from, existing_from)
              THEN [ls EXCEPT !.self_to = existing_from]
              ELSE IF ls.self_from = existing_from
              THEN LET l2 == [ls EXCEPT !.self_to = existing_to]
                   IN IF value_tuple(ls.self) = value_tuple(existing)
                      THEN [log_unchanged(l2) EXCEPT !.create = FALSE]
                      ELSE DeleteAndFlush(
                               log_changed_value(l2, existing, l2.self_from, l2.self_to),
                               existing)
              ELSE LET l2 == [ls EXCEPT !.self_to = existing_to]
                   IN SetPeriod(log_changed_value(l2, existing, l2.self_from, l2.self_to),
                                existing, existing_from, l2.self_from)
    IN [l1 EXCEPT !.self = [@ EXCEPT !.value_to = l1.self_to],
                  !.current_from = l1.self_to,
                  !.stop = TRUE]

\* lines 310-318: the rest of the candidate starts before existing
StartsBeforeBranch(ls, existing) ==
    LET existing_from == existing.value_from
        existing_to == existing.value_to
    IN IF ends_at_or_after(ls.self_to, existing_to)
       THEN DeleteAndFlush(
                log_changed_value(ls, existing, existing_from, existing_to), existing)
       ELSE SetPeriod(log_changed_value(ls, existing, existing_from, ls.self_to),
                      existing, ls.self_to, existing_to)

\* lines 320-338: the rest of the candidate starts where existing starts;
\* the result is the call state and the local existing_to
StartsAtBranch(ls, existing) ==
    LET existing_from == existing.value_from
        existing_to == existing.value_to
        truncate == ls.self_from # ls.current_from /\ ends_after(existing_to, ls.self_to)
        now == IF truncate THEN [existing EXCEPT !.value_from = ls.self_to] ELSE existing
        l1 == IF truncate
              THEN SetPeriod(ls, existing, ls.self_to, existing_to)
              ELSE DeleteAndFlush(ls, existing)
    IN IF value_tuple(ls.self) = value_tuple(existing)
       THEN IF ls.self_to = existing_to
            THEN [ls |-> log_unchanged(l1), existing_to |-> existing_to]
            ELSE [ls |-> log_changed_period(l1, now, existing_from, ls.self_to),
                  existing_to |-> ls.self_to]
       ELSE IF ends_after(ls.self_to, existing_to)
            THEN [ls |-> log_changed_value(l1, existing, existing_from, existing_to),
                  existing_to |-> existing_to]
            ELSE [ls |-> log_changed_value(l1, existing, existing_from, ls.self_to),
                  existing_to |-> existing_to]

\* every record that starts earlier handled as one of the candidate's value
StartsAfterMovesStart(ls, existing) ==
    SetPeriod(log_changed_period(ls, existing, ls.current_from, existing.value_to),
              existing, ls.current_from, existing.value_to)

\* lines 340-350: existing starts before the rest of the candidate
StartsAfterBranch(ls, existing) ==
    LET existing_from == existing.value_from
        existing_to == existing.value_to
    IN IF existing_to = None
       THEN SetPeriod(log_set(ls, ls.self_from, ls.self_to),
                      existing, existing_from, ls.self_from)
       ELSE IF value_tuple(ls.self) = value_tuple(existing)
       THEN SetPeriod(log_changed_period(ls, existing, ls.current_from, existing_to),
                      existing, ls.current_from, existing_to)
       ELSE SetPeriod(log_changed_value(ls, existing, ls.self_from, existing_to),
                      existing, existing_from, ls.self_from)

\* lines 310-352: general overlap resolution
GeneralBranch(ls, existing, current_starts_before) ==
    IF current_starts_before
    THEN [StartsBeforeBranch(ls, existing) EXCEPT !.current_from = existing.value_to]
    ELSE IF ls.current_from = existing.value_from
    THEN LET r == StartsAtBranch(ls, existing)
         IN [r.ls EXCEPT !.current_from = r.existing_to]
    ELSE [StartsAfterBranch(ls, existing) EXCEPT !.current_from = existing.value_to]

\* lines 263-352: the body of the loop for one record of the overlap stream
Body(ls, existing, is_last, coalesce) ==
    LET current_starts_before == starts_before(ls.current_from, existing.value_from)
        l0 == [(IF current_starts_before
                THEN log_set(ls, ls.current_from, existing.value_from)
                ELSE ls) EXCEPT !.flush = FALSE]
    IN IF /\ coalesce
          /\ l0.self_from # existing.value_from
          /\ value_tuple(l0.self) = value_tuple(existing)
       THEN CoalesceBranch(l0, existing, current_starts_before)
       ELSE IF l0.self_to = None /\ (current_starts_before \/ ~is_last)
       THEN OpenEndedBranch(l0, existing)
       ELSE GeneralBranch(l0, existing, current_starts_before)

\* lines 354-358: after the loop
Finish(ls) ==
    LET l1 == IF ends_after(ls.self_to, ls.current_from)
              THEN log_set(ls, ls.current_from, ls.self_to)
              ELSE ls
    IN IF l1.create
       THEN [l1 EXCEPT !.pend = Append(@, Op("add", l1.self)),
                       !.ops = Append(@, Op("add", l1.self))]
       ELSE l1

\* a flush whose error is caught and dropped
FlushedWhatever(l1, t) ==
    [ls |-> [l1 EXCEPT !.pend = <<>>],
     db |-> t.db, nextId |-> t.nextId, err |-> "ok"]

\* one turn of the loop, then the flush it asked for; an error raised by
\* the flush ends the call there
Flushed(l1, t) ==
    IF t.err = "ok"
    THEN [ls |-> [l1 EXCEPT !.pend = <<>>],
          db |-> t.db, nextId |-> t.nextId, err |-> "ok"]
    ELSE [ls |-> [l1 EXCEPT !.log = l1.flushed_log],
          db |-> t.db, nextId |-> t.nextId, err |-> t.err]

\* a turn that runs the loop body twice on its record
IterateTwice(st, existing, is_last, coalesce) ==
    LET l0 == Body(st.ls, existing, is_last, coalesce)
        l1 == [Body(l0, existing, is_last, coalesce) EXCEPT !.flush = l0.flush \/ @]
    IN IF ~l1.flush THEN [st EXCEPT !.ls = l1]
       ELSE Flushed(l1, flush(st.db, st.nextId, l1.pend))

Iterate(st, existing, is_last, coalesce) ==
    LET l1 == Body(st.ls, existing, is_last, coalesce)
    IN IF ~l1.flush THEN [st EXCEPT !.ls = l1]
       ELSE Flushed(l1, flush(st.db, st.nextId, l1.pend))

\* _windowed and the for loop of line 263, from record i of the stream on
RECURSIVE Loop(_, _, _, _)
Loop(st, overlapping, i, coalesce) ==
    IF i > Len(overlapping) \/ st.ls.stop \/ st.err # "ok" THEN st
    ELSE Loop(Iterate(st, overlapping[i], i = Len(overlapping), coalesce),
              overlapping, i + 1, coalesce)

\* a call that undoes its flushed changes when a flush fails
RunOnRollingBack(database, next, self, coalesce, overlapping) ==
    LET st == Loop([ls |-> Start(self), db |-> database, nextId |-> next, err |-> "ok"],
                   overlapping, 1, coalesce)
    IN IF st.err = "ok" THEN [st EXCEPT !.ls = Finish(st.ls)]
       ELSE [st EXCEPT !.db = database, !.ls = [st.ls EXCEPT !.pend = <<>>]]

\* the call on a given overlap stream
RunOn(database, next, self, coalesce, overlapping) ==
    LET st == Loop([ls |-> Start(self), db |-> database, nextId |-> next, err |-> "ok"],
                   overlapping, 1, coalesce)
    IN IF st.err = "ok" THEN [st EXCEPT !.ls = Finish(st.ls)] ELSE st

\* line 261: overlapping.limit(2)
LimitRows == 2

\* a limit of one row instead of two
OverlappingLimitOne(database, self, coalesce) ==
    IF self.value_to = None /\ ~coalesce
    THEN Limit(overlaps(self, database), 1)
    ELSE overlaps(self, database)

\* lines 259-261: the overlap stream of a call
Overlapping(database, self, coalesce) ==
    IF self.value_to = None /\ ~coalesce
    THEN Limit(overlaps(self, database), LimitRows)
    ELSE overlaps(self, database)

\* Temporal.set_for_period(session, coalesce)
set_for_period(database, next, self, coalesce) ==
    RunOn(database, next, self, coalesce, Overlapping(database, self, coalesce))

\* a period that is None: the object has no period yet
NoPeriod == [set |-> FALSE, lower |-> None, upper |-> None]

\* DateTimeRange(lower, upper): the range with the bounds as given
DateTimeRange(lower, upper) == [set |-> TRUE, lower |-> lower, upper |-> upper]

\* the keyword arguments of a constructor call: value_from and value_to
\* (None when left out), and period, which is a key of kw or not
Kwargs ==
    [value_from : Bound, value_to : Bound, has_period : BOOLEAN,
     period : {NoPeriod} \cup {DateTimeRange(l, u) : l \in Bound, u \in Bound}]

NoKwargs ==
    [value_from |-> None, value_to |-> None, has_period |-> FALSE, period |-> NoPeriod]

\* no object is built
NoObject ==
    [pc |-> "none", period |-> NoPeriod, kw |-> NoKwargs,
     before |-> NoPeriod, op |-> "", arg |-> None]

\* a constructor that takes value_from and value_to and drops period
init_ignoring_period(kw) ==
    IF kw.value_from # None \/ kw.value_to # None
    THEN [raised |-> "", period |-> DateTimeRange(kw.value_from, kw.value_to)]
    ELSE [raised |-> "",
          period |-> IF kw.has_period THEN kw.period ELSE NoPeriod]

\* Temporal.__init__: the exception raised, if any, and the period of the
\* object
init(kw) ==
    IF kw.value_from # None \/ kw.value_to # None
    THEN IF kw.has_period
         THEN [raised |-> "TypeError", period |-> NoPeriod]
         ELSE [raised |-> "", period |-> DateTimeRange(kw.value_from, kw.value_to)]
    ELSE [raised |-> "",
          period |-> IF kw.has_period THEN kw.period ELSE NoPeriod]

\* a setter that builds the range from the timestamp alone
set_from_alone(period, timestamp) == DateTimeRange(timestamp, None)

\* the value_from setter
set_value_from(period, timestamp) ==
    LET upper == IF ~period.set THEN None ELSE period.upper
    IN DateTimeRange(timestamp, upper)

\* the value_to setter
set_value_to(period, timestamp) ==
    LET lower == IF ~period.set THEN None ELSE period.lower
    IN DateTimeRange(lower, timestamp)

(***************************************************************************)
(* The callers.  A session is idle, has made a call whose last changes     *)
(* are still pending ("called"), or has seen an error ("failed").          *)
(***************************************************************************)
Idle ==
    [pc |-> "idle", orig |-> NoRow, coalesce |-> TRUE, pre |-> {},
     ls |-> Start(NoRow), err |-> "ok", overlapping |-> <<>>, i |-> 1]

\* no helper is called
NotApplied == [fn |-> "", x |-> None, y |-> None, holds |-> FALSE, bound |-> None]

\* well-formed candidates: value_from < value_to when both are bounded
Candidates ==
    {Temporal(k, v, f, t) : k \in Keys, v \in Values, f \in Bound, t \in Bound}

WellFormed(r) == r.value_from = None \/ r.value_to = None \/ r.value_from < r.value_to

Init ==
    /\ db = {}
    /\ initial = db
    /\ mapped = Model
    /\ obj = NoObject
    /\ applied = NotApplied
    /\ nextId = 1
    /\ calls = 0
    /\ sess = [s \in Sessions |-> Idle]

\* the session's record of a call that ended in state st
Called(self, coalesce, overlapping, st) ==
    [pc |-> IF st.err = "ok" THEN "called" ELSE "failed",
     orig |-> self, coalesce |-> coalesce, pre |-> db,
     ls |-> st.ls, err |-> st.err, overlapping |-> overlapping, i |-> 1]

\* a whole call of set_for_period by session s
SetForPeriod(s) ==
    /\ sess[s].pc = "idle"
    /\ calls < MaxCalls
    /\ calls' = calls + 1
    /\ UNCHANGED <<initial, mapped, obj, applied>>
    /\ \E self \in Candidates, coalesce \in BOOLEAN :
        /\ WellFormed(self)
        /\ \E st \in {set_for_period(db, nextId, self, coalesce)} :
              /\ db' = st.db
              /\ nextId' = st.nextId
              /\ sess' = [sess EXCEPT ![s] =
                    Called(self, coalesce, Overlapping(db, self, coalesce), st)]

\* the caller's session.flush() after the call (SetForPeriodHelpers.check)
Flush(s) ==
    /\ sess[s].pc = "called"
    /\ \E t \in {flush(db, nextId, sess[s].ls.pend)} :
          /\ db' = t.db
          /\ nextId' = t.nextId
          /\ sess' = [sess EXCEPT ![s] =
                [Idle EXCEPT !.pc = IF t.err = "ok" THEN "idle" ELSE "failed",
                             !.err = t.err]]
    /\ UNCHANGED <<calls, initial, mapped, obj, applied>>

\* connection_in_transaction: the transaction, which created the tables,
\* is rolled back
Rollback(s) ==
    /\ sess[s].pc = "failed"
    /\ db' = {}
    /\ sess' = [sess EXCEPT ![s] = Idle]
    /\ UNCHANGED <<nextId, calls, initial, mapped, obj, applied>>

Main == 1

Next == SetForPeriod(Main) \/ Flush(Main) \/ Rollback(Main)

\* calls one after the other, from the empty table
Spec == Init /\ [][Next]_vars

(***************************************************************************)
(* One call on any valid timeline: rows added directly to the session, as  *)
(* the tests do with session.add_all, numbered in the order of their       *)
(* periods.                                                                *)
(***************************************************************************)
Froms(lo) == IF lo = None THEN Bound ELSE {f \in Times : f >= lo}

Tos(f) == {None} \cup {t \in Times : f = None \/ t > f}

RECURSIVE TimelineSeqs(_, _)
TimelineSeqs(key, lo) ==
    {<<>>} \cup UNION {
        {<<Row(None, key, v, f, t)>> \o rest :
            rest \in (IF t = None THEN {<<>>} ELSE TimelineSeqs(key, t))} :
        <<f, t, v>> \in {x \in Bound \X Bound \X Values :
                            x[1] \in Froms(lo) /\ x[2] \in Tos(x[1])}}

Numbered(seq, base) == {[seq[n] EXCEPT !.id = base + n] : n \in DOMAIN seq}

Timelines(key) == {Numbered(seq, 0) : seq \in TimelineSeqs(key, None)}

InitOne ==
    /\ db \in UNION {Timelines(k) : k \in Keys}
    /\ initial = db
    /\ mapped = Model
    /\ obj = NoObject
    /\ applied = NotApplied
    /\ nextId = Cardinality(db) + 1
    /\ calls = MaxCalls - 1
    /\ sess = [s \in Sessions |-> Idle]

SpecOne == InitOne /\ [][Next]_vars

\* the rows as the session sees them: the table with the pending changes
View(s) ==
    LET pend == sess[s].ls.pend
        updated == {o.row.id : o \in Range(OpsOf(pend, "update"))}
    IN {r \in db : r.id \notin updated}
       \cup {o.row : o \in Range(OpsOf(pend, "update"))}
       \cup {o.row : o \in Range(OpsOf(pend, "add"))}

(***************************************************************************)
(* Two sessions whose calls interleave.  A call is a sequence of steps:    *)
(* the query for the overlapping rows, one turn of the loop per row (with  *)
(* the flush the turn asks for), the statements after the loop, and the    *)
(* caller's flush.  Both sessions share the connection, so a flush of one  *)
(* is seen by the other; the rows a session has read stay as it read them. *)
(***************************************************************************)
\* timestamps of interleaved calls are 1..MaxTC
MaxTC == 1

BoundTo(max) == (1..max) \cup {None}

CandidatesOf(keys, max) ==
    {Temporal(k, v, f, t) :
        k \in keys, v \in Values, f \in BoundTo(max), t \in BoundTo(max)}

Within(rows, max) ==
    \A r \in rows : r.value_from \in BoundTo(max) /\ r.value_to \in BoundTo(max)

\* lines 255-261: the locals are set and the overlapping rows are read
Query(s, keys, max) ==
    /\ sess[s].pc = "idle"
    /\ \E self \in CandidatesOf(keys, max), coalesce \in BOOLEAN :
        /\ WellFormed(self)
        /\ sess' = [sess EXCEPT ![s] =
              [pc |-> "loop", orig |-> self, coalesce |-> coalesce, pre |-> db,
               ls |-> Start(self), err |-> "ok",
               overlapping |-> Overlapping(db, self, coalesce), i |-> 1]]
    /\ UNCHANGED <<db, nextId, calls, initial, mapped, obj, applied>>

\* lines 263-352: one turn of the loop, with its flush
Turn(s) ==
    /\ sess[s].pc = "loop"
    /\ sess[s].i <= Len(sess[s].overlapping)
    /\ ~sess[s].ls.stop
    /\ \E st \in {Iterate([ls |-> sess[s].ls, db |-> db, nextId |-> nextId,
                            err |-> "ok"],
                           sess[s].overlapping[sess[s].i],
                           sess[s].i = Len(sess[s].overlapping),
                           sess[s].coalesce)} :
        /\ db' = st.db
        /\ nextId' = st.nextId
        /\ sess' = [sess EXCEPT ![s] =
              [@ EXCEPT !.ls = st.ls, !.err = st.err, !.i = @ + 1,
                        !.pc = IF st.err = "ok" THEN "loop" ELSE "failed"]]
    /\ UNCHANGED <<calls, initial, mapped, obj, applied>>

\* lines 354-358: the loop is over
Return(s) ==
    /\ sess[s].pc = "loop"
    /\ sess[s].i > Len(sess[s].overlapping) \/ sess[s].ls.stop
    /\ sess' = [sess EXCEPT ![s] =
          [@ EXCEPT !.ls = Finish(sess[s].ls), !.pc = "called"]]
    /\ UNCHANGED <<db, nextId, calls, initial, mapped, obj, applied>>

\* the caller's session.flush() after the call; the session keeps what the
\* call has logged
FlushCall(s) ==
    /\ sess[s].pc = "called"
    /\ \E t \in {flush(db, nextId, sess[s].ls.pend)} :
        /\ db' = t.db
        /\ nextId' = t.nextId
        /\ sess' = [sess EXCEPT ![s] =
              [@ EXCEPT !.err = t.err,
                        !.ls = [@ EXCEPT !.pend = IF t.err = "ok" THEN <<>> ELSE @],
                        !.pc = IF t.err = "ok" THEN "done" ELSE "failed"]]
    /\ UNCHANGED <<calls, initial, mapped, obj, applied>>

Steps(s, keys, max) ==
    Query(s, keys, max) \/ Turn(s) \/ Return(s) \/ FlushCall(s)

\* one call per session, both for the same key, on any valid timeline
InitSameKey ==
    /\ db \in {t \in UNION {Timelines(k) : k \in Keys} : Within(t, MaxTC)}
    /\ initial = db
    /\ mapped = Model
    /\ obj = NoObject
    /\ applied = NotApplied
    /\ nextId = Cardinality(db) + 1
    /\ calls = 0
    /\ sess = [s \in Sessions |-> Idle]

NextSameKey == \E s \in Sessions : Steps(s, Keys, MaxTC)

SpecSameKey == InitSameKey /\ [][NextSameKey]_vars

\* one call per session, each session for a key of its own
KeysOf(s) == IF s = Main THEN Keys ELSE OtherKeys

TimelinesFrom(key, base) ==
    {Numbered(seq, base) : seq \in TimelineSeqs(key, None)}

InitTwoKeys ==
    /\ \E x \in UNION {Timelines(k) : k \in Keys} :
          \E y \in UNION {TimelinesFrom(k, Cardinality(x)) : k \in OtherKeys} :
              /\ Within(x \cup y, MaxTC)
              /\ db = x \cup y
    /\ initial = db
    /\ mapped = Model
    /\ obj = NoObject
    /\ applied = NotApplied
    /\ nextId = Cardinality(db) + 1
    /\ calls = 0
    /\ sess = [s \in Sessions |-> Idle]

NextTwoKeys == \E s \in Sessions : Steps(s, KeysOf(s), MaxTC)

SpecTwoKeys == InitTwoKeys /\ [][NextTwoKeys]_vars

\* one call, turn by turn, on any valid timeline
NextByTurns == Steps(Main, Keys, MaxT)

SpecByTurns == InitOne /\ [][NextByTurns]_vars

(***************************************************************************)
(* Rows written directly through a session, as TestConstraints does: rows  *)
(* of any period are added and flushed, then the period of a stored row is *)
(* set and flushed.  The table is that of any of the mapped classes of the *)
(* tests: with one or two key columns, with exclude_constraint turned off, *)
(* without key_columns.                                                    *)
(***************************************************************************)
Classes ==
    {Class(TRUE, <<"key">>, ex) : ex \in BOOLEAN}
    \cup {Class(TRUE, <<"key", "value">>, TRUE)}
    \cup {Class(FALSE, <<>>, TRUE)}

\* Model(period=Range(value_from, value_to), ...): any two bounds
AnyRows ==
    {Row(None, k, v, f, t) :
        k \in Keys \cup OtherKeys, v \in Values, f \in Bound, t \in Bound}

\* TestConstraints._check_valid: session.add of the existing and new rows;
\* the first row is one of the keys of Keys
Added ==
    LET first == {r \in AnyRows : r.key \in Keys}
    IN {<<Op("add", r)>> : r \in first}
       \cup {<<Op("add", r), Op("add", o)>> : r \in first, o \in AnyRows}

InitTable ==
    /\ db = {}
    /\ initial = db
    /\ mapped \in Classes
    /\ obj = NoObject
    /\ applied = NotApplied
    /\ nextId = 1
    /\ calls = MaxCalls - 1
    /\ \E pend \in Added :
          sess = [s \in Sessions |->
                    IF s = Main
                    THEN [Idle EXCEPT !.pc = "called", !.ls.pend = pend,
                                      !.ls.ops = pend]
                    ELSE Idle]

\* test_invalid_update_instance: obj.period = Range(value_from, value_to)
SetPeriodOf(s) ==
    /\ sess[s].pc = "done"
    /\ calls < MaxCalls
    /\ calls' = calls + 1
    /\ \E r \in db, f \in Bound, t \in Bound :
          sess' = [sess EXCEPT ![s] =
                    [@ EXCEPT !.pc = "called", !.pre = db,
                              !.ls = SetPeriod([@ EXCEPT !.ops = <<>>], r, f, t)]]
    /\ UNCHANGED <<db, nextId, initial, mapped, obj, applied>>

NextTable == SetPeriodOf(Main) \/ FlushCall(Main) \/ Rollback(Main)

SpecTable == InitTable /\ [][NextTable]_vars

(***************************************************************************)
(* The overlap query on its own: Temporal.overlaps is called for any       *)
(* candidate on a table that holds a valid timeline of each key, the rows  *)
(* inserted in either order.                                               *)
(***************************************************************************)
\* timestamps of the rows and candidates of the query are 1..MaxTQ
MaxTQ == 3

\* the timelines of the candidates' keys, with timestamps up to MaxTQ
QueryTimelines ==
    {x \in UNION {Timelines(k) : k \in Keys} : Within(x, MaxTQ)}

\* the rows of a timeline inserted latest first
Reversed(rows) == {[r EXCEPT !.id = Cardinality(rows) + 1 - r.id] : r \in rows}

\* no row or one row of another key, with timestamps up to MaxTC
OtherTimelines ==
    {y \in UNION {Timelines(k) : k \in OtherKeys} :
        Within(y, MaxTC) /\ Cardinality(y) <= 1}

\* rows inserted after base others
Shifted(rows, base) == {[r EXCEPT !.id = @ + base] : r \in rows}

InitQuery ==
    /\ \E x \in QueryTimelines, rev \in BOOLEAN, y \in OtherTimelines :
              db = (IF rev THEN Reversed(x) ELSE x) \cup Shifted(y, Cardinality(x))
    /\ initial = db
    /\ mapped = Model
    /\ obj = NoObject
    /\ applied = NotApplied
    /\ nextId = Cardinality(db) + 1
    /\ calls = 0
    /\ sess = [s \in Sessions |-> Idle]

\* a call of self.overlaps(session) with the rows it returns
CallOverlaps(s) ==
    /\ sess[s].pc = "idle"
    /\ \E self \in CandidatesOf(Keys \cup OtherKeys, MaxTQ) :
        /\ WellFormed(self)
        /\ sess' = [sess EXCEPT ![s] =
              [Idle EXCEPT !.pc = "done", !.orig = self, !.pre = db,
                           !.overlapping = overlaps(self, db)]]
    /\ UNCHANGED <<db, nextId, calls, initial, mapped, obj, applied>>

NextQuery == CallOverlaps(Main)

SpecQuery == InitQuery /\ [][NextQuery]_vars

(***************************************************************************)
(* Objects outside any session: an object is built from keyword arguments  *)
(* and its value_from and value_to are assigned.                           *)
(***************************************************************************)
\* Model(**kw)
Construct ==
    /\ obj.pc = "none"
    /\ calls < MaxCalls
    /\ calls' = calls + 1
    /\ \E kw \in Kwargs :
          obj' = [pc |-> IF init(kw).raised = "" THEN "built" ELSE init(kw).raised,
                  period |-> init(kw).period, kw |-> kw,
                  before |-> NoPeriod, op |-> "init", arg |-> None]
    /\ UNCHANGED <<db, nextId, sess, initial, mapped, applied>>

\* obj.value_from = timestamp
AssignValueFrom ==
    /\ obj.pc = "built"
    /\ calls < MaxCalls
    /\ calls' = calls + 1
    /\ \E timestamp \in Bound :
          obj' = [obj EXCEPT !.period = set_value_from(obj.period, timestamp),
                             !.kw = NoKwargs, !.before = obj.period,
                             !.op = "value_from", !.arg = timestamp]
    /\ UNCHANGED <<db, nextId, sess, initial, mapped, applied>>

\* obj.value_to = timestamp
AssignValueTo ==
    /\ obj.pc = "built"
    /\ calls < MaxCalls
    /\ calls' = calls + 1
    /\ \E timestamp \in Bound :
          obj' = [obj EXCEPT !.period = set_value_to(obj.period, timestamp),
                             !.kw = NoKwargs, !.before = obj.period,
                             !.op = "value_to", !.arg = timestamp]
    /\ UNCHANGED <<db, nextId, sess, initial, mapped, applied>>

NextObject == Construct \/ AssignValueFrom \/ AssignValueTo

SpecObject == Init /\ [][NextObject]_vars

(***************************************************************************)
(* The interval helpers on their own: each is called on any two bounds.    *)
(***************************************************************************)
InitHelpers ==
    /\ db = {}
    /\ initial = db
    /\ mapped = Model
    /\ obj = NoObject
    /\ nextId = 1
    /\ calls = 0
    /\ sess = [s \in Sessions |-> Idle]
    /\ \E x \in Bound, y \in Bound :
          applied = [NotApplied EXCEPT !.x = x, !.y = y]

\* starts_before(x, y)
CallStartsBefore ==
    /\ applied.fn = ""
    /\ applied' = [applied EXCEPT !.fn = "starts_before",
                                  !.holds = starts_before(applied.x, applied.y)]
    /\ UNCHANGED <<db, nextId, sess, calls, initial, mapped, obj>>

\* ends_at_or_after(x, y)
CallEndsAtOrAfter ==
    /\ applied.fn = ""
    /\ applied' = [applied EXCEPT !.fn = "ends_at_or_after",
                                  !.holds = ends_at_or_after(applied.x, applied.y)]
    /\ UNCHANGED <<db, nextId, sess, calls, initial, mapped, obj>>

\* ends_after(x, y)
CallEndsAfter ==
    /\ applied.fn = ""
    /\ applied' = [applied EXCEPT !.fn = "ends_after",
                                  !.holds = ends_after(applied.x, applied.y)]
    /\ UNCHANGED <<db, nextId, sess, calls, initial, mapped, obj>>

\* earliest(x, y)
CallEarliest ==
    /\ applied.fn = ""
    /\ applied' = [applied EXCEPT !.fn = "earliest",
                                  !.bound = earliest(applied.x, applied.y)]
    /\ UNCHANGED <<db, nextId, sess, calls, initial, mapped, obj>>

\* latest(x, y)
CallLatest ==
    /\ applied.fn = ""
    /\ applied' = [applied EXCEPT !.fn = "latest",
                                  !.bound = latest(applied.x, applied.y)]
    /\ UNCHANGED <<db, nextId, sess, calls, initial, mapped, obj>>

NextHelpers ==
    CallStartsBefore \/ CallEndsAtOrAfter \/ CallEndsAfter \/ CallEarliest \/ CallLatest

SpecHelpers == InitHelpers /\ [][NextHelpers]_vars

(***************************************************************************)
(* What the claims speak of.                                               *)
(***************************************************************************)
\* the rows of a key in effect at an instant, and their values
InEffect(rows, key, T) == {r \in rows : r.key = key /\ value_at(r, T)}

ValuesAt(rows, key, T) == {value_tuple(r) : r \in InEffect(rows, key, T)}

\* two rows of one key whose half-open periods share an instant
ShareInstant(a, b) ==
    a.key = b.key /\ \E T \in Instants : value_at(a, T) /\ value_at(b, T)

WellFormedPeriod(r) == ~EmptyPeriod(r) /\ ~Inverted(r)

\* the columns of the rows, without the ids
Content(rows) == {<<r.key, r.value, r.value_from, r.value_to>> : r \in rows}

\* the last call of the main session has returned
Returned == sess[Main].pc = "called"

\* the last call of the main session has returned or raised
Ended == sess[Main].pc \in {"called", "failed"} /\ sess[Main].orig # NoRow

\* C1: from the empty table, after every call of set_for_period the rows
\* the call has left for a key are pairwise non-overlapping: no instant
\* lies in the periods of two of them.
C1_NoOverlapAfterEachCall ==
    Returned =>
        \A a \in View(Main), b \in View(Main) : a # b => ~ShareInstant(a, b)

\* C2: on a valid timeline, no step of a call writes a period that is empty
\* or inverted, and no such row is left after the call.
C2_NoEmptyOrInvertedPeriod ==
    Ended =>
        /\ \A n \in DOMAIN sess[Main].ls.ops :
              sess[Main].ls.ops[n].op \in {"update", "add"}
                  => WellFormedPeriod(sess[Main].ls.ops[n].row)
        /\ \A r \in View(Main) : WellFormedPeriod(r)

\* the candidate's period as the call has closed it: its start as given and
\* the end the open-ended special case has set (the given end otherwise)
ClosedPeriod(s) ==
    [sess[s].orig EXCEPT !.value_to = sess[s].ls.self_to]

\* C3: after a call, at every instant of the candidate's (closed) period
\* exactly the candidate's value is in effect for the candidate's key.
C3_CandidateValueInEffect ==
    Returned =>
        \A T \in Instants :
            value_at(ClosedPeriod(Main), T) =>
                ValuesAt(View(Main), sess[Main].orig.key, T)
                    = {value_tuple(sess[Main].orig)}

\* C4: after a call, at every instant outside the candidate's original
\* period where a row of the key was in effect before, the same value is in
\* effect.
C4_HistoryOutsidePreserved ==
    Returned =>
        \A T \in Instants :
            (/\ ~value_at(sess[Main].orig, T)
             /\ InEffect(sess[Main].pre, sess[Main].orig.key, T) # {})
            => ValuesAt(View(Main), sess[Main].orig.key, T)
                   = ValuesAt(sess[Main].pre, sess[Main].orig.key, T)

\* the table after the session's pending changes are flushed
AfterFlush(s) == flush(db, nextId, sess[s].ls.pend)

\* the same candidate set a second time, on the table the first call and its
\* flush have left
SecondCall(s) ==
    set_for_period(AfterFlush(s).db, AfterFlush(s).nextId,
                   sess[s].orig, sess[s].coalesce)

AfterSecondCall(s) ==
    flush(SecondCall(s).db, SecondCall(s).nextId, SecondCall(s).ls.pend)

\* C5: a second call with the same candidate leaves the rows (key, value,
\* from, to) as they were after the first call and logs only 'left at'
\* events.
C5_SecondCallChangesNothing ==
    (Returned /\ AfterFlush(Main).err = "ok") =>
        /\ SecondCall(Main).err = "ok"
        /\ AfterSecondCall(Main).err = "ok"
        /\ Content(AfterSecondCall(Main).db) = Content(AfterFlush(Main).db)
        /\ Cardinality(AfterSecondCall(Main).db)
               = Cardinality(AfterFlush(Main).db)
        /\ \A n \in DOMAIN SecondCall(Main).ls.log :
               SecondCall(Main).ls.log[n].kind = "unchanged"

\* two rows of one key with equal values that overlap or meet end to start
AdjacentOrOverlappingSame(a, b) ==
    /\ a # b
    /\ key_tuple(a) = key_tuple(b)
    /\ value_tuple(a) = value_tuple(b)
    /\ \/ ShareInstant(a, b)
       \/ a.value_to # None /\ a.value_to = b.value_from

Coalesced(rows) ==
    \A a \in rows, b \in rows : ~AdjacentOrOverlappingSame(a, b)

\* C6: with coalesce, a call on a timeline without adjacent or overlapping
\* rows of equal value leaves no two such rows.
C6_CoalesceLeavesNoAdjacentSame ==
    (Returned /\ sess[Main].coalesce /\ Coalesced(sess[Main].pre))
        => Coalesced(View(Main))

\* an existing row that starts strictly after the candidate's start
StartsStrictlyAfter(r, cand) ==
    /\ r.value_from # None
    /\ cand.value_from = None \/ cand.value_from < r.value_from

\* the call has deleted the row or changed its period
Touched(s, r) ==
    \E n \in DOMAIN sess[s].ls.ops :
        /\ sess[s].ls.ops[n].op \in {"delete", "update"}
        /\ sess[s].ls.ops[n].row.id = r.id

\* C7: a call with an open-ended candidate neither deletes nor changes the
\* period of an existing row that starts strictly after the candidate's
\* start and has another value, and the candidate does not reach into it.
C7_OpenEndedKeepsLaterRecords ==
    (Ended /\ sess[Main].orig.value_to = None) =>
        \A r \in sess[Main].pre :
            (/\ key_tuple(r) = key_tuple(sess[Main].orig)
             /\ StartsStrictlyAfter(r, sess[Main].orig)
             /\ value_tuple(r) # value_tuple(sess[Main].orig))
            => /\ ~Touched(Main, r)
               /\ Returned => \A c \in View(Main) :
                                 c.id = None => ~ShareInstant(c, r)

\* the call of the session, run on all overlapping rows in order
FullStream(s) ==
    RunOn(sess[s].pre, nextId, sess[s].orig, sess[s].coalesce,
          overlaps(sess[s].orig, sess[s].pre))

\* the call of the session as set_for_period runs it
AsRun(s) ==
    set_for_period(sess[s].pre, nextId, sess[s].orig, sess[s].coalesce)

\* C8: without coalesce, a call with an open-ended candidate that has read
\* only the first two overlapping rows makes the same changes, leaves the
\* same rows and logs the same events as one that reads all of them.
C8_LimitTwoSameAsFullStream ==
    (Ended /\ ~sess[Main].coalesce /\ sess[Main].orig.value_to = None) =>
        /\ sess[Main].ls.ops = FullStream(Main).ls.ops
        /\ sess[Main].ls.pend = FullStream(Main).ls.pend
        /\ sess[Main].ls.log = FullStream(Main).ls.log
        /\ sess[Main].err = FullStream(Main).err
        /\ db = FullStream(Main).db
        /\ AsRun(Main).ls = sess[Main].ls

\* C8 witness: such a call has returned where more than two rows overlap
\* the candidate
C8_Witness ==
    /\ Returned
    /\ ~sess[Main].coalesce
    /\ sess[Main].orig.value_to = None
    /\ Len(overlaps(sess[Main].orig, sess[Main].pre)) > LimitRows

NoOverlapIn(rows) ==
    \A a \in rows, b \in rows : a # b => ~ShareInstant(a, b)

\* the call of session s, had it run alone on the table it has read
Alone(s) ==
    set_for_period(sess[s].pre, Cardinality(sess[s].pre) + 1,
                   sess[s].orig, sess[s].coalesce)

\* C9: when two calls for one key interleave and every flush is checked by
\* the exclusion constraint, the table never holds two overlapping rows of
\* the key, and a session whose pending changes would make two rows
\* overlap has its flush refused with an error.
C9_InterleavedCallsNeverOverlap ==
    /\ NoOverlapIn(db)
    /\ \A s \in Sessions :
          (sess[s].pc = "called" /\ ~NoOverlapIn(View(s)))
              => AfterFlush(s).err \in {"IntegrityError", "DataError",
                                        "StaleDataError"}

\* C9 witness: a session's flush has been refused with an IntegrityError
\* after the other session, which had read the same rows, has flushed its
\* call, though the call alone would have been accepted.
C9_Witness ==
    \E s \in Sessions, o \in Sessions :
        /\ s # o
        /\ sess[s].pc = "failed"
        /\ sess[s].err = "IntegrityError"
        /\ sess[o].pc = "done"
        /\ sess[o].pre = sess[s].pre
        /\ Alone(s).err = "ok"
        /\ flush(Alone(s).db, Alone(s).nextId, Alone(s).ls.pend).err = "ok"

\* a call and the caller's flush, one after the other on the table t:
\* the table left, the error raised and the events logged
CallAndFlush(t, self, coalesce) ==
    LET st == set_for_period(t.db, t.nextId, self, coalesce)
        f == flush(st.db, st.nextId, st.ls.pend)
    IN IF st.err # "ok"
       THEN [db |-> st.db, nextId |-> st.nextId, err |-> st.err, log |-> st.ls.log]
       ELSE [db |-> f.db, nextId |-> f.nextId, err |-> f.err, log |-> st.ls.log]

\* the call of session s on the initial table
First(s) ==
    CallAndFlush([db |-> initial, nextId |-> Cardinality(initial) + 1],
                 sess[s].orig, sess[s].coalesce)

\* the call of session s on the table t an earlier call has left
Second(s, t) ==
    CallAndFlush(t, sess[s].orig, sess[s].coalesce)

BothEnded == \A s \in Sessions : sess[s].pc \in {"done", "failed"}

\* C10: when the calls of two sessions for different keys have interleaved
\* in any way, the rows of both keys and each call's log events (and the
\* error it has raised) are those of the two calls run one after the other,
\* in either order.
C10_DifferentKeysIndependent ==
    BothEnded =>
        \A s \in Sessions, o \in Sessions :
            s # o =>
                LET first == First(o)
                    second == Second(s, first)
                IN /\ Content(db) = Content(second.db)
                   /\ Cardinality(db) = Cardinality(second.db)
                   /\ sess[o].ls.log = first.log
                   /\ sess[o].err = first.err
                   /\ sess[s].ls.log = second.log
                   /\ sess[s].err = second.err

\* C10 witness: both calls have ended after steps of the one took place
\* between steps that changed rows of the other: both have changed the
\* table and each had read it before the other's last flush.
C10_Witness ==
    /\ \A s \in Sessions : sess[s].pc = "done"
    /\ \A s \in Sessions : sess[s].pre = initial
    /\ \A s \in Sessions : Len(sess[s].ls.ops) > 1
    /\ \A k \in Keys \cup OtherKeys :
          {r \in db : r.key = k} # {r \in initial : r.key = k}

\* session s takes the step
Stepping(s) == sess'[s] # sess[s]

\* C11: no step of a call changes or deletes a row of another key or a row
\* of the candidate's key whose period shares no instant with the
\* candidate's original period.
C11_OnlyOverlappingRecordsTouched ==
    [][\A s \in Sessions :
          Stepping(s) =>
              \A r \in db :
                  (\/ key_tuple(r) # key_tuple(sess[s].orig)
                   \/ ~ShareInstant(r, sess[s].orig))
                  => r \in db']_vars

\* C11 witness: a call that has deleted or updated rows has ended on a
\* table that held a row of the key outside the candidate's period and a
\* row of another key.
C11_Witness ==
    \E s \in Sessions :
        /\ sess[s].pc = "done"
        /\ \E r \in sess[s].pre : Touched(s, r) /\ r \notin db
        /\ \E r \in sess[s].pre :
              key_tuple(r) = key_tuple(sess[s].orig) /\ ~ShareInstant(r, sess[s].orig)
        /\ \E r \in sess[s].pre : key_tuple(r) # key_tuple(sess[s].orig)

\* the session has changes to flush
Pending == sess[Main].pc = "called"

\* the table as the pending changes of session s would leave it: the rows
\* with the updated periods, and the added rows with the ids they will get
Intended(s) ==
    LET pend == sess[s].ls.pend
        updates == Range(OpsOf(pend, "update"))
        adds == OpsOf(pend, "add")
    IN {r \in db : \A o \in updates : o.row.id # r.id}
       \cup {o.row : o \in updates}
       \cup {[adds[n].row EXCEPT !.id = nextId + n - 1] : n \in DOMAIN adds}

PeriodsShareInstant(a, b) ==
    \E T \in Instants : value_at(a, T) /\ value_at(b, T)

\* the class has declared key columns and has not turned the constraint off
Excluding == mapped.declared /\ mapped.exclude_constraint

\* two of the rows have equal key columns and periods that share an instant
Clash(rows) ==
    \E a \in rows, b \in rows :
        /\ a # b
        /\ \A n \in DOMAIN mapped.key_columns :
              a[mapped.key_columns[n]] = b[mapped.key_columns[n]]
        /\ PeriodsShareInstant(a, b)

AllWellFormed(rows) == \A r \in rows : WellFormedPeriod(r)

\* C12: with the exclusion constraint, a flush of added rows or of an
\* updated row that would leave two rows of one key whose periods share an
\* instant raises IntegrityError; one that leaves the rows of each key
\* disjoint (adjacent included) succeeds and stores the rows.
C12_OverlappingRowsRejected ==
    (Pending /\ Excluding /\ AllWellFormed(Intended(Main))) =>
        IF Clash(Intended(Main))
        THEN AfterFlush(Main).err = "IntegrityError"
        ELSE /\ AfterFlush(Main).err = "ok"
             /\ AfterFlush(Main).db = Intended(Main)

\* C12 witness: the flush of an update that makes a stored row overlap
\* another one has raised IntegrityError.
C12_Witness ==
    /\ sess[Main].pc = "failed"
    /\ sess[Main].err = "IntegrityError"
    /\ Excluding
    /\ OpsOf(sess[Main].ls.pend, "update") # <<>>
    /\ AllWellFormed(Intended(Main))
    /\ Clash(Intended(Main))

\* C13: for every class, a flush with a row whose period is empty or
\* inverted raises an error, no such row is ever stored, and a single row
\* with unbounded start and bounded end is stored.
C13_EmptyOrInvertedRowRejected ==
    /\ AllWellFormed(db)
    /\ (Pending /\ ~AllWellFormed(Intended(Main)))
           => AfterFlush(Main).err \in {"IntegrityError", "DataError"}
    /\ (Pending /\ db = {} /\ Len(sess[Main].ls.pend) = 1)
           => LET r == sess[Main].ls.pend[1].row
              IN (r.value_from = None /\ r.value_to # None)
                     => /\ AfterFlush(Main).err = "ok"
                        /\ Content(AfterFlush(Main).db) = Content({r})

\* C13 witness: the flush of an empty period has raised an error on the
\* table of a class without key columns, and nothing of it is stored.
C13_Witness ==
    /\ sess[Main].pc = "failed"
    /\ ~mapped.declared
    /\ \E n \in DOMAIN sess[Main].ls.pend :
          sess[Main].ls.pend[n].row.value_from # None
          /\ sess[Main].ls.pend[n].row.value_from = sess[Main].ls.pend[n].row.value_to
    /\ AllWellFormed(db)

\* a key column in which the two rows differ
DifferInKeyColumn(a, b) ==
    \E n \in DOMAIN mapped.key_columns :
        a[mapped.key_columns[n]] # b[mapped.key_columns[n]]

\* C14: with the exclusion constraint, a flush of well-formed rows is
\* refused only if two rows with overlapping periods agree in every key
\* column, and rows that differ in a key column are stored whatever their
\* periods.
C14_ExclusionComparesWholeKey ==
    (Pending /\ Excluding /\ AllWellFormed(Intended(Main))) =>
        /\ AfterFlush(Main).err # "ok" =>
              \E a \in Intended(Main), b \in Intended(Main) :
                  a # b /\ ~DifferInKeyColumn(a, b) /\ PeriodsShareInstant(a, b)
        /\ (\A a \in Intended(Main), b \in Intended(Main) :
               a # b => DifferInKeyColumn(a, b))
              => AfterFlush(Main).err = "ok"

\* C14 witness: the table of a class with two key columns holds two rows
\* with overlapping periods that differ in one key column only.
C14_Witness ==
    /\ Len(mapped.key_columns) = 2
    /\ Excluding
    /\ \E a \in db, b \in db :
          /\ PeriodsShareInstant(a, b)
          /\ a.key = b.key
          /\ a.value # b.value

\* C15: without key_columns or with exclude_constraint turned off, a flush
\* of well-formed rows succeeds even if rows with equal columns overlap,
\* and a row with an empty period is still refused.
C15_NoExclusionWithoutKeysOrWhenOff ==
    (Pending /\ ~Excluding) =>
        /\ AllWellFormed(Intended(Main))
              => /\ AfterFlush(Main).err = "ok"
                 /\ AfterFlush(Main).db = Intended(Main)
        /\ (\E r \in Intended(Main) : EmptyPeriod(r))
              => AfterFlush(Main).err # "ok"

\* C15 witness: a table without exclusion holds two rows with equal
\* columns and overlapping periods.
C15_Witness ==
    /\ ~Excluding
    /\ \E a \in db, b \in db :
          /\ a # b
          /\ a.key = b.key /\ a.value = b.value
          /\ PeriodsShareInstant(a, b)

\* a starts no later than b, an unbounded start being the earliest
StartsNoLater(a, b) ==
    a.value_from = None \/ (b.value_from # None /\ a.value_from <= b.value_from)

\* the rows the overlap query of session s's call had to return
Sharing(s) ==
    {r \in sess[s].pre : r.key = sess[s].orig.key /\ ShareInstant(r, sess[s].orig)}

\* C16: the overlap query of a call returns each row of the candidate's key
\* whose period shares an instant with the candidate's once, and no other
\* row (no row of another key, no row that only meets the candidate's
\* period), in ascending order of start with an unbounded start first.
C16_OverlapQueryExactAndOrdered ==
    \A s \in Sessions : sess[s].orig # NoRow =>
        LET q == overlaps(sess[s].orig, sess[s].pre)
        IN /\ Range(q) = Sharing(s)
           /\ Len(q) = Cardinality(Sharing(s))
           /\ \A i \in DOMAIN q, j \in DOMAIN q : i < j => StartsNoLater(q[i], q[j])
           /\ \A n \in DOMAIN sess[s].overlapping : sess[s].overlapping[n] = q[n]

\* C16 witness: a call whose query has returned two rows, the first with an
\* unbounded start and the higher id, while the table held a row of another
\* key with an overlapping period.
C16_Witness ==
    \E s \in Sessions :
        /\ sess[s].orig # NoRow
        /\ Len(sess[s].overlapping) = 2
        /\ sess[s].overlapping[1].value_from = None
        /\ sess[s].overlapping[1].id > sess[s].overlapping[2].id
        /\ \E r \in sess[s].pre :
              r.key # sess[s].orig.key /\ PeriodOverlaps(r, sess[s].orig)

\* the rows the call of session s has left with the candidate's columns
\* and its original period
AsGiven(s) ==
    {r \in View(s) : <<r.key, r.value, r.value_from, r.value_to>>
                       = <<sess[s].orig.key, sess[s].orig.value,
                           sess[s].orig.value_from, sess[s].orig.value_to>>}

\* C17: with coalesce=False and a candidate with a bounded end, on a valid
\* timeline the call leaves one row with the candidate's key, value and
\* original period, and no other row of the key shares an instant with
\* that period.
C17_NoCoalesceClosedCandidateStoredAsGiven ==
    (Ended /\ ~sess[Main].coalesce /\ sess[Main].orig.value_to # None) =>
        /\ sess[Main].err = "ok"
        /\ Cardinality(AsGiven(Main)) = 1
        /\ \A r \in View(Main) \ AsGiven(Main) : ~ShareInstant(r, sess[Main].orig)

\* the period from the earliest start to the latest end of the rows
Union(rows) ==
    LET froms == {r.value_from : r \in rows}
        tos == {r.value_to : r \in rows}
    IN [value_from |-> IF None \in froms THEN None
                       ELSE CHOOSE f \in froms : \A g \in froms : f <= g,
        value_to |-> IF None \in tos THEN None
                     ELSE CHOOSE t \in tos : \A u \in tos : t >= u]

\* the candidate of session s together with the rows its query returned
Merged(s) == Union(Sharing(s) \cup {sess[s].orig})

\* the rows the call of session s has left inside the merged period
Covering(s) ==
    {r \in View(s) : r.key = sess[s].orig.key
                     /\ PeriodOverlaps(r, [r EXCEPT !.value_from = Merged(s).value_from,
                                                    !.value_to = Merged(s).value_to])}

\* C18: with coalesce=True, when every overlapping record has the
\* candidate's value, the call leaves exactly one row of the key inside the
\* union of the candidate's period and those records' periods; the row has
\* the candidate's value and spans the whole union.
C18_CoalesceMergesIntoOneRow ==
    (/\ Ended
     /\ sess[Main].coalesce
     /\ Sharing(Main) # {}
     /\ \A r \in Sharing(Main) : r.value = sess[Main].orig.value) =>
        /\ sess[Main].err = "ok"
        /\ Cardinality(Covering(Main)) = 1
        /\ \A r \in Covering(Main) :
              /\ r.value = sess[Main].orig.value
              /\ r.value_from = Merged(Main).value_from
              /\ r.value_to = Merged(Main).value_to

\* a starts strictly before b: b's start is bounded and a's start is
\* unbounded or earlier
StartsStrictlyBefore(a, b) ==
    b.value_from # None /\ (a.value_from = None \/ a.value_from < b.value_from)

\* the whole stream of records that overlap the candidate of session s
Stream(s) == overlaps(sess[s].orig, sess[s].pre)

\* where the open-ended special case has to close the candidate of
\* session s: at the start of the first record of the stream if the
\* candidate starts strictly before it, at that record's end otherwise
ClosedAt(s) ==
    IF StartsStrictlyBefore(sess[s].orig, Stream(s)[1])
    THEN Stream(s)[1].value_from
    ELSE Stream(s)[1].value_to

\* C19: with coalesce=False and an open-ended candidate that starts
\* strictly before the first overlapping record e1, or overlaps more records
\* than e1, the call leaves the candidate's value on [candidate.from, X),
\* X being e1's start if the candidate starts strictly before e1 and e1's
\* end otherwise; e1 is untouched in the first case, deleted or left as it
\* is if it starts at the candidate's start, and cut to end at the
\* candidate's start if it starts earlier; every other record is left as
\* it is.
C19_OpenEndedCandidateClosedAtFirstRecord ==
    (/\ Ended
     /\ ~sess[Main].coalesce
     /\ sess[Main].orig.value_to = None
     /\ Stream(Main) # <<>>
     /\ (StartsStrictlyBefore(sess[Main].orig, Stream(Main)[1])
            \/ Len(Stream(Main)) > 1)) =>
        LET orig == sess[Main].orig
            e1 == Stream(Main)[1]
            left == {r \in View(Main) : r.id = e1.id}
        IN /\ sess[Main].err = "ok"
           /\ \E r \in View(Main) :
                 /\ r.key = orig.key /\ r.value = orig.value
                 /\ r.value_from = orig.value_from
                 /\ r.value_to = ClosedAt(Main)
           /\ IF StartsStrictlyBefore(orig, e1) THEN left = {e1}
              ELSE IF e1.value_from = orig.value_from THEN left \subseteq {e1}
              ELSE left = {[e1 EXCEPT !.value_to = orig.value_from]}
           /\ \A r \in sess[Main].pre : r.id # e1.id => r \in View(Main)

\* C20: when no record of the candidate's key overlaps the candidate's
\* period, the call (with either coalesce setting) only adds the candidate
\* with its period as given, and logs one INFO 'set' event for the whole of
\* that period.
C20_NoOverlapAddsCandidateAndLogsSet ==
    (Ended /\ Stream(Main) = <<>>) =>
        /\ sess[Main].err = "ok"
        /\ sess[Main].ls.ops = <<Op("add", sess[Main].orig)>>
        /\ View(Main) = sess[Main].pre \cup {sess[Main].orig}
        /\ sess[Main].ls.log =
              <<Event("set", "INFO", sess[Main].orig,
                      sess[Main].orig.value_from, sess[Main].orig.value_to, NoRow)>>

\* C21: when one record e overlaps the candidate, starts strictly before
\* the candidate and has another value, the call (with either coalesce
\* setting) leaves e with its start as it was and its end at the
\* candidate's start, and adds the candidate with its period as given.
C21_EarlierRecordOfOtherValueTruncated ==
    (/\ Ended
     /\ Len(Stream(Main)) = 1
     /\ StartsStrictlyBefore(Stream(Main)[1], sess[Main].orig)
     /\ Stream(Main)[1].value # sess[Main].orig.value) =>
        LET e == Stream(Main)[1]
        IN /\ sess[Main].err = "ok"
           /\ View(Main) = (sess[Main].pre \ {e})
                  \cup {[e EXCEPT !.value_to = sess[Main].orig.value_from],
                        sess[Main].orig}

\* C21 witness: a call with coalesce=True has cut a record of another
\* value that reached beyond the end of a closed candidate.
C21_Witness ==
    /\ Returned
    /\ sess[Main].coalesce
    /\ Len(Stream(Main)) = 1
    /\ StartsStrictlyBefore(Stream(Main)[1], sess[Main].orig)
    /\ Stream(Main)[1].value # sess[Main].orig.value
    /\ sess[Main].orig.value_to # None
    /\ ends_after(Stream(Main)[1].value_to, sess[Main].orig.value_to)
    /\ [Stream(Main)[1] EXCEPT !.value_to = sess[Main].orig.value_from] \in View(Main)

\* the table held a record with the columns and the period of the
\* candidate of session s
AlreadyStored(s) ==
    \E r \in sess[s].pre :
        <<r.key, r.value, r.value_from, r.value_to>>
            = <<sess[s].orig.key, sess[s].orig.value,
                sess[s].orig.value_from, sess[s].orig.value_to>>

\* C22: when the table holds a record with the candidate's key, value and
\* period, the call (with either coalesce setting) leaves the rows (key,
\* value, from, to) as they were and logs one event, the DEBUG 'left at'.
C22_IdenticalRecordLeftAlone ==
    (Ended /\ AlreadyStored(Main)) =>
        /\ sess[Main].err = "ok"
        /\ Content(View(Main)) = Content(sess[Main].pre)
        /\ Cardinality(View(Main)) = Cardinality(sess[Main].pre)
        /\ Len(sess[Main].ls.log) = 1
        /\ sess[Main].ls.log[1].kind = "unchanged"
        /\ sess[Main].ls.log[1].level = "DEBUG"

\* the call of session s has left the candidate's value in effect at T,
\* where another value was in effect before
Overwritten(s, T) ==
    /\ ValuesAt(sess[s].pre, sess[s].orig.key, T) # {}
    /\ value_tuple(sess[s].orig) \notin ValuesAt(sess[s].pre, sess[s].orig.key, T)
    /\ ValuesAt(View(s), sess[s].orig.key, T) = {value_tuple(sess[s].orig)}

\* the call of session s has logged a WARNING 'changed from' event for a
\* period that holds T
WarnedAt(s, T) ==
    \E n \in DOMAIN sess[s].ls.log :
        LET e == sess[s].ls.log[n]
        IN /\ e.kind = "changed_value"
           /\ e.level = "WARNING"
           /\ value_at([value_from |-> e.value_from, value_to |-> e.value_to], T)

\* the call of session s has logged an INFO 'set' event for a period that
\* holds T
SetAt(s, T) ==
    \E n \in DOMAIN sess[s].ls.log :
        LET e == sess[s].ls.log[n]
        IN /\ e.kind = "set"
           /\ e.level = "INFO"
           /\ value_at([value_from |-> e.value_from, value_to |-> e.value_to], T)

\* the record in effect at T before the call of session s was open-ended
OpenEndedBefore(s, T) ==
    \A r \in InEffect(sess[s].pre, sess[s].orig.key, T) : r.value_to = None

\* C23 as stated: at every instant where a call has replaced another value
\* by the candidate's, the call has logged a WARNING 'changed from' event
\* whose period holds the instant.
C23_OverwriteLoggedAsWarning ==
    Returned => \A T \in Instants : Overwritten(Main, T) => WarnedAt(Main, T)

\* C23 amended: at every instant where a call has replaced another value
\* by the candidate's, the call has logged a WARNING 'changed from' event
\* whose period holds the instant, unless the replaced record was
\* open-ended: then it has logged that event or an INFO 'set' event whose
\* period holds the instant.
C23_OverwriteLoggedAsWarningOrSet ==
    Returned =>
        \A T \in Instants : Overwritten(Main, T) =>
            \/ WarnedAt(Main, T)
            \/ OpenEndedBefore(Main, T) /\ SetAt(Main, T)

\* C23 witness: a call whose changes the table accepts has replaced the
\* value of an open-ended record and has logged only an INFO 'set' event
\* for it.
C23_Witness ==
    /\ Returned
    /\ AfterFlush(Main).err = "ok"
    /\ \E T \in Instants :
          Overwritten(Main, T) /\ OpenEndedBefore(Main, T)
              /\ ~WarnedAt(Main, T) /\ SetAt(Main, T)

\* the INFO 'set' events the call of session s has logged
SetEvents(s) ==
    {e \in Range(sess[s].ls.log) : e.kind = "set" /\ e.level = "INFO"}

\* the period an event names
PeriodOf(e) == [value_from |-> e.value_from, value_to |-> e.value_to]

\* C24 as stated: every INFO 'set' event of a call names a non-empty
\* period over which no record of the candidate's key was in effect before
\* the call.
C24_SetNamesUncoveredPeriod ==
    Ended =>
        \A e \in SetEvents(Main) :
            /\ \E T \in Instants : value_at(PeriodOf(e), T)
            /\ \A T \in Instants :
                  value_at(PeriodOf(e), T)
                      => InEffect(sess[Main].pre, sess[Main].orig.key, T) = {}

\* C25: a constructor call with period and with a value_from or a value_to
\* raises TypeError, builds no object and touches neither table nor
\* session; with value_from or value_to and without period the object's
\* period is [value_from, value_to), a bound left out being unbounded; with
\* period only the object's period is the one given.
C25_ConstructorRefusesPeriodWithBounds ==
    obj.op = "init" =>
        LET bounds == obj.kw.value_from # None \/ obj.kw.value_to # None
        IN /\ (obj.kw.has_period /\ bounds) =>
                 /\ obj.pc = "TypeError"
                 /\ ~obj.period.set
                 /\ db = initial
                 /\ \A s \in Sessions : sess[s] = Idle
           /\ (~obj.kw.has_period /\ bounds) =>
                 /\ obj.pc = "built"
                 /\ obj.period.set
                 /\ obj.period.lower = obj.kw.value_from
                 /\ obj.period.upper = obj.kw.value_to
           /\ (obj.kw.has_period /\ ~bounds) =>
                 /\ obj.pc = "built"
                 /\ obj.period = obj.kw.period

\* C25 witness: a constructor call with period and value_to has raised
\* TypeError.
C25_Witness ==
    /\ obj.op = "init"
    /\ obj.pc = "TypeError"
    /\ obj.kw.has_period
    /\ obj.kw.period.set
    /\ obj.kw.value_from = None
    /\ obj.kw.value_to # None

\* C29: an assignment to value_from sets the lower bound of the period and
\* leaves the upper bound as it was, an assignment to value_to sets the
\* upper bound and leaves the lower bound as it was; on an object without
\* a period the other bound becomes unbounded; the attribute read back is
\* the value assigned.
C29_AssignmentChangesOneBound ==
    /\ obj.op = "value_from" =>
          /\ obj.period.set
          /\ obj.period.lower = obj.arg
          /\ obj.period.upper = (IF obj.before.set THEN obj.before.upper ELSE None)
    /\ obj.op = "value_to" =>
          /\ obj.period.set
          /\ obj.period.upper = obj.arg
          /\ obj.period.lower = (IF obj.before.set THEN obj.before.lower ELSE None)

\* C29 witness: value_from has been assigned on an object whose period
\* had a bounded end, as the second assignment to the object.
C29_Witness ==
    /\ obj.op = "value_from"
    /\ obj.before.set
    /\ obj.before.upper # None
    /\ obj.arg # None
    /\ obj.arg # obj.before.lower
    /\ calls = MaxCalls

\* the kinds of the operations the call of session s has issued
Issued(s) == {sess[s].ls.ops[n].op : n \in DOMAIN sess[s].ls.ops}

\* C26: when a flush issued inside set_for_period raises, the call ends
\* there with that error: the flush is the last operation the call has
\* issued, the candidate is not added, and the session takes no further
\* step of the call (no other read of the overlapping rows, no other
\* delete, update or flush).
C26_ErrorInsideCallEndsCall ==
    [][\A s \in Sessions :
         /\ (sess[s].pc = "loop" /\ Stepping(s) /\ sess[s].i <= Len(sess[s].overlapping)
                /\ ~sess[s].ls.stop) =>
               LET l1 == Body(sess[s].ls, sess[s].overlapping[sess[s].i],
                              sess[s].i = Len(sess[s].overlapping), sess[s].coalesce)
                   t == flush(db, nextId, l1.pend)
               IN (l1.flush /\ t.err # "ok") =>
                     /\ sess'[s].pc = "failed"
                     /\ sess'[s].err = t.err
                     /\ sess'[s].ls.ops = l1.ops
                     /\ l1.ops[Len(l1.ops)].op = "flush"
                     /\ "add" \notin {l1.ops[n].op : n \in DOMAIN l1.ops}
         /\ sess[s].pc = "failed" => sess'[s] = sess[s]]_vars

\* C26 witness: a flush inside a call has raised; the call has ended
\* without adding its candidate.
C26_Witness ==
    \E s \in Sessions :
        /\ sess[s].pc = "failed"
        /\ sess[s].err # "ok"
        /\ sess[s].ls.create
        /\ "add" \notin Issued(s)
        /\ sess[s].ls.ops # <<>>
        /\ sess[s].ls.ops[Len(sess[s].ls.ops)].op = "flush"

\* the operations ops[n..] carried out in the caller's transaction and
\* nothing else: each flush sends what is pending, the first error stops
RECURSIVE Replayed(_, _, _, _, _)
Replayed(ops, n, database, next, pend) ==
    IF n > Len(ops)
    THEN [db |-> database, nextId |-> next, pend |-> pend, err |-> "ok"]
    ELSE IF ops[n].op = "flush"
         THEN LET t == flush(database, next, pend)
              IN IF t.err = "ok" THEN Replayed(ops, n + 1, t.db, t.nextId, <<>>)
                 ELSE [db |-> t.db, nextId |-> t.nextId, pend |-> pend, err |-> t.err]
         ELSE Replayed(ops, n + 1, database, next, Append(pend, ops[n]))

C28_AtMostOneRowSelectedPerKey ==
    /\ \A r \in db, T \in Instants :
          value_at(r, T) <=>
              /\ (r.value_from # None => r.value_from <= T)
              /\ (r.value_to # None => T < r.value_to)
    /\ Excluding =>
          \A a \in db, b \in db, T \in Instants :
              (SameKey(mapped.key_columns, a, b) /\ value_at(a, T) /\ value_at(b, T))
                  => a = b

\* two stored rows with equal key columns meet at an instant: the later one
\* is selected there and the earlier one is not
C28_Witness ==
    /\ Excluding
    /\ \E a \in db, b \in db :
          /\ a # b
          /\ SameKey(mapped.key_columns, a, b)
          /\ a.value_to # None
          /\ a.value_to = b.value_from
          /\ value_at(b, a.value_to)
          /\ ~value_at(a, a.value_to)

\* the candidate of session s lies within a record of its key and value
\* that starts strictly before it
Enclosed(s) ==
    \E e \in sess[s].pre :
        /\ e.key = sess[s].orig.key
        /\ value_tuple(e) = value_tuple(sess[s].orig)
        /\ StartsStrictlyBefore(e, sess[s].orig)
        /\ \/ e.value_to = None
           \/ sess[s].orig.value_to # None /\ sess[s].orig.value_to <= e.value_to

\* C30: with coalesce=True, when the candidate's period lies within one
\* record of the same value that starts strictly before the candidate, the
\* call deletes nothing, changes no period, does not add the candidate and
\* logs exactly one event, the DEBUG 'left at'.
C30_EnclosedCandidateLeftAlone ==
    (Ended /\ sess[Main].coalesce /\ Enclosed(Main)) =>
        /\ sess[Main].err = "ok"
        /\ sess[Main].ls.ops = <<>>
        /\ sess[Main].ls.pend = <<>>
        /\ db = sess[Main].pre
        /\ Len(sess[Main].ls.log) = 1
        /\ sess[Main].ls.log[1].kind = "unchanged"
        /\ sess[Main].ls.log[1].level = "DEBUG"

\* such a call has returned: the candidate ends before the end of the
\* record that encloses it
C30_Witness ==
    /\ Returned
    /\ sess[Main].coalesce
    /\ Enclosed(Main)
    /\ sess[Main].orig.value_to # None
    /\ \E e \in sess[Main].pre :
          /\ StartsStrictlyBefore(e, sess[Main].orig)
          /\ value_tuple(e) = value_tuple(sess[Main].orig)
          /\ e.value_to # None
          /\ sess[Main].orig.value_to < e.value_to
    /\ sess[Main].ls.ops = <<>>

\* C31: starts_before(a, b) is true exactly when a is unbounded, or both are
\* bounded and a < b.
C31_StartsBeforeUnboundedOrLess ==
    applied.fn = "starts_before" =>
        (applied.holds <=>
            \/ applied.x = None
            \/ applied.x # None /\ applied.y # None /\ applied.x < applied.y)

\* starts_before has been called on two unbounded starts and returned True
C31_Witness ==
    /\ applied.fn = "starts_before"
    /\ applied.x = None
    /\ applied.y = None
    /\ applied.holds

\* an end bound as a number: the unbounded end is later than every timestamp
EndOf(b) == IF b = None THEN MaxT + 1 ELSE b

\* C32: with an unbounded end later than every timestamp and equal to an
\* unbounded end, ends_after(a, b) is true exactly when a is strictly later
\* than b and ends_at_or_after(a, b) exactly when a is later than or equal
\* to b, that is when ends_after(a, b) holds or a = b.
C32_EndComparisonsOrderEnds ==
    /\ applied.fn = "ends_after" =>
          (applied.holds <=> EndOf(applied.x) > EndOf(applied.y))
    /\ applied.fn = "ends_at_or_after" =>
          /\ applied.holds <=> EndOf(applied.x) >= EndOf(applied.y)
          /\ applied.holds <=> (ends_after(applied.x, applied.y) \/ applied.x = applied.y)

\* ends_at_or_after has been called on two equal bounded ends and returned
\* True
C32_Witness ==
    /\ applied.fn = "ends_at_or_after"
    /\ applied.x # None
    /\ applied.x = applied.y
    /\ applied.holds

\* C38: starts_before is a strict order on start bounds with the unbounded
\* start as least element: exactly one of starts_before(a, b), a = b and
\* starts_before(b, a) holds, so starts_before(a, a) is false for every a.
C38_StartsBeforeStrictOrder ==
    applied.fn = "starts_before" =>
        LET before == applied.holds
            same == applied.x = applied.y
            after == starts_before(applied.y, applied.x)
        IN /\ before \/ same \/ after
           /\ ~(before /\ same)
           /\ ~(before /\ after)
           /\ ~(same /\ after)

\* a start bound as a number: the unbounded start is earlier than every
\* timestamp
StartOf(b) == IF b = None THEN 0 ELSE b

TrueEarliest(x, y) == IF StartOf(x) <= StartOf(y) THEN x ELSE y

TrueLatest(x, y) == IF EndOf(x) >= EndOf(y) THEN x ELSE y

\* this step of session s is a turn of the loop in which the coalesce branch
\* deletes the record of the candidate's value and widens the candidate
Widening(s) ==
    /\ sess[s].pc = "loop"
    /\ sess[s].coalesce
    /\ sess[s].i <= Len(sess[s].overlapping)
    /\ sess'[s].i = sess[s].i + 1
    /\ LET existing == sess[s].overlapping[sess[s].i]
       IN /\ value_tuple(existing) = value_tuple(sess[s].ls.self)
          /\ existing.value_from # sess[s].ls.self_from
          /\ sess'[s].ls.ops
                = sess[s].ls.ops \o <<Op("delete", existing), Op("flush", NoRow)>>

\* C33: earliest(x, y) and latest(x, y) are None whenever one argument is
\* None and the minimum, respectively the maximum, otherwise; when the
\* coalesce branch widens the candidate, the candidate's new start is the
\* earliest of its start and the record's start, an unbounded start being
\* the earliest, and its new end is the latest of its end and the record's
\* end, an unbounded end being the latest.
C33_WideningTakesEarliestAndLatest ==
    [][/\ \A x \in Bound, y \in Bound :
            /\ earliest(x, y) = IF x = None \/ y = None THEN None
                                ELSE IF x <= y THEN x ELSE y
            /\ latest(x, y) = IF x = None \/ y = None THEN None
                              ELSE IF x >= y THEN x ELSE y
       /\ \A s \in Sessions :
            Widening(s) =>
                LET existing == sess[s].overlapping[sess[s].i]
                    self == sess[s].ls.self
                IN /\ sess'[s].ls.self.value_from
                        = TrueEarliest(self.value_from, existing.value_from)
                   /\ sess'[s].ls.self.value_to
                        = TrueLatest(self.value_to, existing.value_to)]_vars

\* a candidate with a bounded start has been widened over a record of its
\* value with an unbounded start: its start is now unbounded
C33_Witness ==
    \E s \in Sessions :
        /\ sess[s].coalesce
        /\ sess[s].orig.value_from # None
        /\ sess[s].ls.self.value_from = None
        /\ \E n \in DOMAIN sess[s].ls.ops :
              /\ sess[s].ls.ops[n].op = "delete"
              /\ value_tuple(sess[s].ls.ops[n].row) = value_tuple(sess[s].orig)
              /\ sess[s].ls.ops[n].row.value_from = None

\* the deletes and period changes of the row with this id among ops
Touching(ops, id) ==
    {n \in DOMAIN ops : ops[n].op \in {"delete", "update"} /\ ops[n].row.id = id}

\* the positions of the adds among ops
Adds(ops) == {n \in DOMAIN ops : ops[n].op = "add"}

\* C34: a call is a single pass over its overlap stream: the stream is the
\* one queried at the start of the call, turn n of the loop handles record
\* n and only that record, there are no more turns than records and after
\* the last one the call returns; each record is deleted or has its period
\* changed at most once, and the candidate is added at most once, as the
\* last operation of the call.
C34_SinglePassOverStream ==
    [][\A s \in Sessions :
         sess[s].pc = "loop" =>
            LET ops == sess[s].ls.ops
                new == sess'[s].ls.ops
                turn == sess'[s].i # sess[s].i
            IN /\ sess'[s].overlapping = sess[s].overlapping
               /\ sess'[s].orig = sess[s].orig
               /\ sess[s].i <= Len(sess[s].overlapping) + 1
               /\ turn =>
                    /\ sess'[s].i = sess[s].i + 1
                    /\ sess[s].i <= Len(sess[s].overlapping)
                    /\ Adds(new) = {}
                    /\ \A n \in DOMAIN new :
                          (n > Len(ops) /\ new[n].op \in {"delete", "update"}) =>
                              new[n].row.id = sess[s].overlapping[sess[s].i].id
               /\ ~turn =>
                    /\ sess'[s].pc = "called"
                    /\ sess[s].i > Len(sess[s].overlapping) \/ sess[s].ls.stop
                    /\ \A n \in Adds(new) : n = Len(new) /\ n = Len(ops) + 1
               /\ \A n \in DOMAIN ops : new[n] = ops[n]
               /\ \A e \in sess[s].pre : Cardinality(Touching(new, e.id)) <= 1
               /\ Cardinality(Adds(new)) <= 1]_vars

\* a call over a stream of two records has returned: it has deleted or
\* changed each of them once and then added the candidate
C34_Witness ==
    \E s \in Sessions :
        /\ sess[s].pc = "called"
        /\ Len(sess[s].overlapping) = 2
        /\ sess[s].i = 3
        /\ \A n \in DOMAIN sess[s].overlapping :
              Cardinality(Touching(sess[s].ls.ops, sess[s].overlapping[n].id)) = 1
        /\ Adds(sess[s].ls.ops) = {Len(sess[s].ls.ops)}

\* the call of session s has logged 'left at' events and nothing else
OnlyLeftAt(s) ==
    /\ sess[s].ls.log # <<>>
    /\ \A n \in DOMAIN sess[s].ls.log :
          /\ sess[s].ls.log[n].kind = "unchanged"
          /\ sess[s].ls.log[n].level = "DEBUG"

\* C35: a call that logs only 'left at' events leaves the rows (key, value,
\* from, to) of the candidate's key as they were before it; a call that
\* ends with create = False has deleted no record in the same pass.
C35_OnlyLeftAtChangesNothing ==
    Ended =>
        /\ OnlyLeftAt(Main) =>
              /\ sess[Main].err = "ok"
              /\ Content(View(Main)) = Content(sess[Main].pre)
        /\ ~sess[Main].ls.create =>
              \A n \in DOMAIN sess[Main].ls.ops : sess[Main].ls.ops[n].op # "delete"

\* the stored rows with the key, value and period of the candidate of
\* session s
Identical(s) ==
    {r \in sess[s].pre :
        <<r.key, r.value, r.value_from, r.value_to>>
            = <<sess[s].orig.key, sess[s].orig.value,
                sess[s].orig.value_from, sess[s].orig.value_to>>}

\* the call of session s has logged 'left at' for the candidate's period
LeftAt(s) ==
    \E n \in DOMAIN sess[s].ls.log :
        /\ sess[s].ls.log[n].kind = "unchanged"
        /\ sess[s].ls.log[n].value_from = sess[s].orig.value_from
        /\ sess[s].ls.log[n].value_to = sess[s].orig.value_to

\* C36: when a call logs 'left at' for a stored record with the candidate's
\* key, value and period, that row stays in place: the call neither deletes
\* it nor adds a row in its stead, and the row is in the table, under its
\* id, after the call.
C36_UnchangedRecordKeepsItsRow ==
    (Ended /\ LeftAt(Main)) =>
        \A r \in Identical(Main) :
            /\ r \in View(Main)
            /\ Touching(sess[Main].ls.ops, r.id) = {}
            /\ Adds(sess[Main].ls.ops) = {}

\* the WARNING 'changed from <old> to <new>' events of the call of session s
ChangedEvents(s) ==
    {sess[s].ls.log[n] : n \in {m \in DOMAIN sess[s].ls.log :
                                   sess[s].ls.log[m].kind = "changed_value"}}

\* C37: every 'changed from <old> to <new>' event of a call names a period
\* at every instant of which a record of value <old> was in effect before
\* the call and the candidate's value <new>, and no other, is in effect
\* after it.
C37_ChangeEventsAreAccurate ==
    Returned =>
        \A e \in ChangedEvents(Main) :
            \A T \in Instants :
                value_at(PeriodOf(e), T) =>
                    /\ <<e.old_value>> \in ValuesAt(sess[Main].pre, e.key, T)
                    /\ ValuesAt(View(Main), e.key, T) = {<<e.value>>}

====
